---- MODULE Spec2Model ----
(***************************************************************************)
(* Model of the Workspace class of src/build.mjs (lines 163-309): the      *)
(* dependency graph builder (buildDepGraph), the root-set expansion        *)
(* (dependencyClosure) and the scheduler (runPackages / run).              *)
(*                                                                         *)
(* A JavaScript Set and an array of names are both modelled as a sequence  *)
(* without duplicates, in insertion order, because the code iterates them  *)
(* in that order.                                                          *)
(***************************************************************************)
EXTENDS Integers, Sequences, FiniteSets, TLC

\* Names a manifest may mention, in the order Object.keys lists them.
NameOrder == <<"a", "b", "c">>

\* Most dependency names declared in one workspace, over all manifests.
MaxDeclared == 3

\* Most dependency names declared in the workspaces the scheduler is run on.
MaxSchedDeclared == 2

VARIABLES
    packages,     \* Workspace.packages: the package names, in load order
    manifest,     \* pkgMap[name].manifest: the three dependency collections
    depGraph,     \* Workspace.depGraph: name -> array of names
    gpc,          \* position inside buildDepGraph
    sets,         \* buildDepGraph's local depGraph: name -> Set of names
    cmd,          \* the Command given to run: which members it has
    rootSet,      \* runPackages' rootSet: only ?? this.packages
    pc,           \* position inside Workspace.run
    pkgs,         \* runPackages' pkgs: the closure being executed
    status,       \* runPackages' status table (ordered mode)
    taskResult,   \* per package: cmd.run not invoked, pending, or its result
    promise,      \* state of the promise built in runPackages
    rpResult,     \* what runPackages returned
    wsCalls,      \* number of invocations of cmd.runWorkspace
    wsSnapshot,   \* the tasks still incomplete when cmd.runWorkspace was invoked
    runResult     \* what run returned

wsVars == <<packages, manifest, depGraph>>
graphVars == <<gpc, sets>>
runVars == <<cmd, rootSet, pc, pkgs, status, taskResult, promise,
             rpResult, wsCalls, wsSnapshot, runResult>>
vars == <<packages, manifest, depGraph, gpc, sets,
          cmd, rootSet, pc, pkgs, status, taskResult, promise,
          rpResult, wsCalls, wsSnapshot, runResult>>

Names == {NameOrder[i] : i \in 1..Len(NameOrder)}
Categories == <<"dependencies", "devDependencies", "peerDependencies">>

Range(s) == {s[i] : i \in 1..Len(s)}

\* The members of S in the order of NameOrder.
SeqOf(S) == SelectSeq(NameOrder, LAMBDA n : n \in S)

----------------------------------------------------------------------------
(* JavaScript Set<string>, as an insertion-ordered sequence.               *)

\* Set.prototype.add
SetAdd(s, x) == IF x \in Range(s) THEN s ELSE Append(s, x)

RECURSIVE SetAddAll(_, _)
\* b.forEach(x => a.add(x))
SetAddAll(a, b) ==
    IF b = <<>> THEN a ELSE SetAddAll(SetAdd(a, Head(b)), Tail(b))

\* new Set(array)
NewSet(arr) == SetAddAll(<<>>, arr)

----------------------------------------------------------------------------
(* buildDepGraph                                                           *)

\* rootSet = new Set(Object.keys(this.pkgMap))
RootSet(pkgList) == NewSet(pkgList)

\* DeclaredNames as it would be if the peer dependencies were left out.
DeclaredNamesNoPeer(man) == man.dependencies \o man.devDependencies

\* allVersionedDeps.map(deps => Object.keys(deps || {})).flat()
DeclaredNames(man) ==
    man.dependencies \o man.devDependencies \o man.peerDependencies

\* The Set built for one package: its declared names that are package names.
DirectDeps(pkgList, man) ==
    NewSet(SelectSeq(DeclaredNames(man), LAMBDA n : n \in Range(RootSet(pkgList))))

\* The local depGraph before the fixpoint loop.
InitialSets(pkgList, mans) ==
    [name \in Range(RootSet(pkgList)) |-> DirectDeps(pkgList, mans[name])]

\* union as it would be if it never reported growth: the loop stops after
\* its first pass.
unionNeverGrew(a, b) == [set |-> SetAddAll(a, b), grew |-> FALSE]

\* union as it would be if it compared the sizes with >= in place of >.
unionAlwaysGrew(a, b) == [set |-> SetAddAll(a, b), grew |-> TRUE]

\* union(a, b): a after the additions, and whether a grew.
union(a, b) ==
    LET a2 == SetAddAll(a, b) IN [set |-> a2, grew |-> Len(a2) > Len(a)]

RECURSIVE UnionDeps(_, _, _, _)
\* deps.forEach(dep => changed = union(depGraph[name], depGraph[dep]) || changed)
UnionDeps(g, name, deps, changed) ==
    IF deps = <<>> THEN [g |-> g, changed |-> changed]
    ELSE LET u == union(g[name], g[Head(deps)])
         IN UnionDeps([g EXCEPT ![name] = u.set], name, Tail(deps),
                      u.grew \/ changed)

RECURSIVE PassKeys(_, _, _)
\* Object.keys(depGraph).forEach(name => { let deps = [...depGraph[name]]; ... })
PassKeys(g, keys, changed) ==
    IF keys = <<>> THEN [g |-> g, changed |-> changed]
    ELSE LET r == UnionDeps(g, Head(keys), g[Head(keys)], changed)
         IN PassKeys(r.g, Tail(keys), r.changed)

\* One iteration of the while loop: a full pass, starting with changed = false.
Pass(g, keys) == PassKeys(g, keys, FALSE)

\* Fixpoint as it would be with a single pass instead of a loop.
FixpointOnePass(g, keys) == Pass(g, keys).g

RECURSIVE Fixpoint(_, _)
\* while (true) { ...; if (!changed) break; }
Fixpoint(g, keys) ==
    LET r == Pass(g, keys) IN IF r.changed THEN Fixpoint(r.g, keys) ELSE r.g

\* _.fromPairs(Object.keys(depGraph).map(name => [name, [...depGraph[name]]]))
ToArrays(g) == [name \in DOMAIN g |-> g[name]]

\* Workspace.buildDepGraph, as the constructor calls it.
buildDepGraph(pkgList, mans) ==
    ToArrays(Fixpoint(InitialSets(pkgList, mans), RootSet(pkgList)))

----------------------------------------------------------------------------
(* dependencyClosure                                                       *)

\* ClosureAdd as it would be if only the first name of the snapshot were
\* visited.
ClosureAddFirstOnly(graph, depsSet, todo) ==
    IF todo = <<>> THEN depsSet ELSE SetAddAll(depsSet, graph[Head(todo)])

RECURSIVE ClosureAdd(_, _, _)
\* [...depsSet].forEach(p => this.depGraph[p].forEach(p2 => depsSet.add(p2)))
ClosureAdd(graph, depsSet, todo) ==
    IF todo = <<>> THEN depsSet
    ELSE ClosureAdd(graph, SetAddAll(depsSet, graph[Head(todo)]), Tail(todo))

RECURSIVE ClosureLoop(_, _)
\* while (true) { let n = depsSet.size; ...; if (depsSet.size == n) break; }
ClosureLoop(graph, depsSet) ==
    LET next == ClosureAdd(graph, depsSet, depsSet)
    IN IF Len(next) = Len(depsSet) THEN next ELSE ClosureLoop(graph, next)

\* dependencyClosure as it would be if the set started empty and only the
\* dependencies of the roots were collected.
dependencyClosureDepsOnly(graph, rootList) ==
    ClosureLoop(graph, ClosureAdd(graph, <<>>, NewSet(rootList)))

\* Workspace.dependencyClosure(roots), as the names of the packages returned.
dependencyClosure(graph, rootList) == ClosureLoop(graph, NewSet(rootList))

----------------------------------------------------------------------------
(* The workspaces the model is run on.                                     *)

\* The injective sequences over S: the orders in which S can be loaded.
OrdersOf(S) ==
    {q \in [1..Cardinality(S) -> S] : \A i, j \in 1..Cardinality(S) : q[i] = q[j] => i = j}

\* Workspace.load: any list of distinct package names (a lone package when the
\* workspace is no monorepo, none when the packages directory is empty).
PackageLists == UNION {OrdersOf(S) : S \in SUBSET Names}

RECURSIVE SubsetsUpTo(_, _)
\* The subsets of S with at most k members.
SubsetsUpTo(S, k) ==
    IF k = 0 THEN {{}}
    ELSE LET smaller == SubsetsUpTo(S, k - 1)
         IN smaller \cup {T \cup {x} : T \in smaller, x \in S}

\* A declaration <<package, category, name>>: the manifest of `package` lists
\* `name` under `category`.
Declarations(pkgList) == Range(pkgList) \X Range(Categories) \X Names

\* The manifests that make exactly the declarations D.
ManifestsOf(pkgList, D) ==
    [p \in Range(pkgList) |->
        [dependencies     |-> SeqOf({n \in Names : <<p, "dependencies", n>> \in D}),
         devDependencies  |-> SeqOf({n \in Names : <<p, "devDependencies", n>> \in D}),
         peerDependencies |-> SeqOf({n \in Names : <<p, "peerDependencies", n>> \in D})]]

NoRun ==
    /\ cmd = [run |-> FALSE, runWorkspace |-> FALSE, parallel |-> FALSE]
    /\ rootSet = <<>>
    /\ pc = "idle"
    /\ pkgs = <<>>
    /\ status = <<>>
    /\ taskResult = <<>>
    /\ promise = "none"
    /\ rpResult = "none"
    /\ wsCalls = 0
    /\ wsSnapshot = {}
    /\ runResult = "none"

----------------------------------------------------------------------------
(* GraphSpec: buildDepGraph, step by step.                                 *)

GraphInit ==
    /\ packages \in PackageLists
    /\ \E D \in SubsetsUpTo(Declarations(packages), MaxDeclared) :
           manifest = ManifestsOf(packages, D)
    /\ depGraph = <<>>
    /\ gpc = "new"
    /\ sets = <<>>
    /\ NoRun

\* Lines 198-217: the direct internal dependencies of every package.
BuildStart ==
    /\ gpc = "new"
    /\ sets' = InitialSets(packages, manifest)
    /\ gpc' = "loop"
    /\ UNCHANGED <<wsVars, runVars>>

\* Lines 224-233: one iteration of the while loop.
BuildPass ==
    /\ gpc = "loop"
    /\ LET r == Pass(sets, RootSet(packages))
       IN /\ sets' = r.g
          /\ gpc' = IF r.changed THEN "loop" ELSE "return"
    /\ UNCHANGED <<wsVars, runVars>>

\* Lines 234-236, and the constructor's assignment at line 173.
BuildReturn ==
    /\ gpc = "return"
    /\ depGraph' = ToArrays(sets)
    /\ gpc' = "built"
    /\ UNCHANGED <<packages, manifest, sets, runVars>>

GraphNext ==
    \/ BuildStart
    \/ BuildPass
    \/ BuildReturn

GraphSpec == GraphInit /\ [][GraphNext]_vars

----------------------------------------------------------------------------

\* The root lists runPackages is called with: this.packages, or some of the
\* workspace's packages.
RootLists(pkgList) == {pkgList} \cup {SeqOf(S) : S \in SUBSET Range(pkgList)}

----------------------------------------------------------------------------
(* Spec: Workspace.run and runPackages on a constructed workspace.         *)

\* The declarations of the workspaces the scheduler is run on: internal names
\* under "dependencies".
SchedDeclarations(pkgList) == Range(pkgList) \X {"dependencies"} \X Range(pkgList)

\* The state after `new Workspace(root, packages, monorepo)`.
Init ==
    /\ packages \in PackageLists
    /\ \E D \in SubsetsUpTo(SchedDeclarations(packages), MaxSchedDeclared) :
           manifest = ManifestsOf(packages, D)
    /\ depGraph = buildDepGraph(packages, manifest)
    /\ gpc = "built"
    /\ sets = <<>>
    /\ NoRun

\* The Commands run is given: with or without run and runWorkspace; parallel
\* is TRUE when cmd.parallel is present and returns true.
Commands ==
    {c \in [run : BOOLEAN, runWorkspace : BOOLEAN, parallel : BOOLEAN] :
        c.parallel => c.run}

\* status[name], undefined when the table has no such key.
StatusOf(st, name) == IF name \in DOMAIN st THEN st[name] ELSE "undefined"

\* canExecute as it would be if a started dependency counted as done.
canExecuteStarted(st, list) ==
    SelectSeq(list, LAMBDA p :
        /\ st[p] = "queued"
        /\ \A i \in 1..Len(depGraph[p]) :
               StatusOf(st, depGraph[p][i]) \in {"running", "finished"})

\* canExecute as it would be if a package's own name were skipped in its
\* depGraph entry.
canExecuteSkipSelf(st, list) ==
    SelectSeq(list, LAMBDA p :
        /\ st[p] = "queued"
        /\ \A i \in 1..Len(depGraph[p]) :
               depGraph[p][i] # p => StatusOf(st, depGraph[p][i]) = "finished")

\* canExecute as it would be without the test status[pkg.name] == "queued".
canExecuteAnyStatus(st, list) ==
    SelectSeq(list, LAMBDA p :
        \A i \in 1..Len(depGraph[p]) : StatusOf(st, depGraph[p][i]) = "finished")

\* canExecute as it would be without the test of the dependencies.
canExecuteNoDeps(st, list) == SelectSeq(list, LAMBDA p : st[p] = "queued")

\* Lines 266-271: the queued packages whose depGraph entries are all finished.
canExecute(st, list) ==
    SelectSeq(list, LAMBDA p :
        /\ st[p] = "queued"
        /\ \A i \in 1..Len(depGraph[p]) : StatusOf(st, depGraph[p][i]) = "finished")

\* runTasks as it would be if only the first eligible package were started
\* (find in place of filter).
runTasksFirstOnly(st, list) ==
    LET eligible == canExecute(st, list)
    IN [p \in DOMAIN st |->
           IF eligible # <<>> /\ p = Head(eligible) THEN "running" ELSE st[p]]

\* Lines 273-276: runTasks marks every package of canExecute() running and
\* invokes cmd.run on it.
runTasks(st, list) ==
    [p \in DOMAIN st |-> IF p \in Range(canExecute(st, list)) THEN "running" ELSE st[p]]

\* taskResult after cmd.run has been invoked on the packages that went from
\* queued to running.
Invoked(tr, st, st2) ==
    [p \in DOMAIN tr |-> IF st[p] = "queued" /\ st2[p] = "running" THEN "pending" ELSE tr[p]]

\* Settle as it would be if the last call won (a flag instead of a promise).
SettleLastWins(pr, how) == how

\* Promise semantics: resolve and reject settle a pending promise only.
Settle(pr, how) == IF pr = "pending" THEN how ELSE pr

\* RejectOnFailure as it would be if a failure were only recorded and left to
\* the end of the run.
RejectOnFailureNever(pr, success) == pr

\* Line 278: if (!success) reject();
RejectOnFailure(pr, success) == IF ~success THEN Settle(pr, "rejected") ELSE pr

\* AllFinished as it would be with some in place of every.
SomeFinished(st) == \E k \in DOMAIN st : st[k] = "finished"

\* Line 281: Object.keys(status).every(k => status[k] == "finished")
AllFinished(st) == \A k \in DOMAIN st : st[k] = "finished"

Completed(tr, p) == tr[p] \in {"true", "false"}

\* Line 298 onwards, c being the command and success the value of line 297.
AfterPackages(c, success) ==
    IF c.runWorkspace
    THEN /\ wsCalls' = wsCalls + 1
         /\ wsSnapshot' = {p \in DOMAIN taskResult : ~Completed(taskResult, p)}
         /\ pc' = "workspace"
         /\ runResult' = runResult
    ELSE /\ pc' = "done"
         /\ runResult' = (IF success THEN "true" ELSE "false")
         /\ UNCHANGED <<wsCalls, wsSnapshot>>

\* Lines 295-297 and 255-286: run(cmd, only) up to its first await.
Run(c, rootList) ==
    /\ pc = "idle"
    /\ cmd' = c
    /\ IF c.run
       THEN LET list == dependencyClosure(depGraph, rootList)
                queued == [p \in Range(list) |-> "queued"]
                none == [p \in Range(list) |-> "none"]
            IN /\ rootSet' = rootList
               /\ pkgs' = list
               /\ IF c.parallel
                  THEN /\ status' = <<>>
                       /\ taskResult' = [p \in Range(list) |-> "pending"]
                       /\ promise' = "none"
                  ELSE /\ status' = runTasks(queued, list)
                       /\ taskResult' = Invoked(none, queued, status')
                       /\ promise' = "pending"
               /\ pc' = "packages"
               /\ UNCHANGED <<rpResult, wsCalls, wsSnapshot, runResult>>
       ELSE /\ UNCHANGED <<rootSet, pkgs, status, taskResult, promise, rpResult>>
            /\ AfterPackages(c, TRUE)
    /\ UNCHANGED <<wsVars, graphVars>>

\* Lines 277-283: the task of package p completes with `success`.
TaskDone(p, success) ==
    /\ cmd.run /\ ~cmd.parallel
    /\ p \in DOMAIN status
    /\ status[p] = "running"
    /\ LET rejected == RejectOnFailure(promise, success)
           finished == [status EXCEPT ![p] = "finished"]
           result == [taskResult EXCEPT ![p] = IF success THEN "true" ELSE "false"]
       IN IF AllFinished(finished)
          THEN /\ promise' = Settle(rejected, "resolved")
               /\ status' = finished
               /\ taskResult' = result
          ELSE /\ promise' = rejected
               /\ status' = runTasks(finished, pkgs)
               /\ taskResult' = Invoked(result, finished, status')
    /\ UNCHANGED <<wsVars, graphVars, cmd, rootSet, pc, pkgs, rpResult,
                   wsCalls, wsSnapshot, runResult>>

\* Line 260: one of the promises given to Promise.all is fulfilled.
ParallelTaskDone(p, success) ==
    /\ cmd.run /\ cmd.parallel
    /\ p \in DOMAIN taskResult
    /\ taskResult[p] = "pending"
    /\ taskResult' = [taskResult EXCEPT ![p] = IF success THEN "true" ELSE "false"]
    /\ UNCHANGED <<wsVars, graphVars, cmd, rootSet, pc, pkgs, status, promise,
                   rpResult, wsCalls, wsSnapshot, runResult>>

\* EveryResult as it would be with some in place of every.
SomeResult(tr) ==
    IF \E p \in DOMAIN tr : tr[p] = "true" THEN "true" ELSE "false"

\* Line 261: results.every(x => x)
EveryResult(tr) ==
    IF \A p \in DOMAIN tr : tr[p] = "true" THEN "true" ELSE "false"

\* Lines 260-261 and 287-292: runPackages returns.
RunPackagesReturn ==
    /\ pc = "packages"
    /\ IF cmd.parallel
       THEN /\ \A p \in DOMAIN taskResult : Completed(taskResult, p)
            /\ rpResult' = EveryResult(taskResult)
       ELSE /\ promise \in {"resolved", "rejected"}
            /\ rpResult' = IF promise = "resolved" THEN "true" ELSE "false"
    /\ pc' = "returned"
    /\ UNCHANGED <<wsVars, graphVars, cmd, rootSet, pkgs, status, taskResult,
                   promise, wsCalls, wsSnapshot, runResult>>

\* Lines 297-299: run resumes with the value of runPackages.
RunContinue ==
    /\ pc = "returned"
    /\ AfterPackages(cmd, rpResult = "true")
    /\ UNCHANGED <<wsVars, graphVars, cmd, rootSet, pkgs, status, taskResult,
                   promise, rpResult>>

\* Lines 298-299: cmd.runWorkspace resolves to `ok`, and run returns.
WorkspaceDone(ok) ==
    /\ pc = "workspace"
    /\ runResult' = IF ok /\ (cmd.run => rpResult = "true") THEN "true" ELSE "false"
    /\ pc' = "done"
    /\ UNCHANGED <<wsVars, graphVars, cmd, rootSet, pkgs, status, taskResult,
                   promise, rpResult, wsCalls, wsSnapshot>>

Next ==
    \/ \E c \in Commands, rootList \in RootLists(packages) : Run(c, rootList)
    \/ \E p \in Names, success \in BOOLEAN : TaskDone(p, success)
    \/ \E p \in Names, success \in BOOLEAN : ParallelTaskDone(p, success)
    \/ RunPackagesReturn
    \/ RunContinue
    \/ \E ok \in BOOLEAN : WorkspaceDone(ok)

Spec == Init /\ [][Next]_vars

\* A started task completes.
TaskStep == \E p \in Names, success \in BOOLEAN : TaskDone(p, success)

\* LiveSpec: every started task eventually completes, and the event loop runs
\* the continuation of a settled promise.
LiveSpec ==
    /\ Spec
    /\ WF_vars(TaskStep)
    /\ WF_vars(RunPackagesReturn)

\* ReturnFairSpec: the event loop runs the continuation of a settled promise,
\* but a started task may never complete.
ReturnFairSpec == Spec /\ WF_vars(RunPackagesReturn)

----------------------------------------------------------------------------
(* DiamondSpec: run and runPackages on the workspace                       *)
(* {a: [], b: [a], c: [a], d: [b, c]}.                                     *)

DiamondPackages == <<"a", "b", "c", "d">>

NoDeps == [dependencies |-> <<>>, devDependencies |-> <<>>, peerDependencies |-> <<>>]

DiamondManifest ==
    [p \in Range(DiamondPackages) |->
        CASE p = "a" -> NoDeps
          [] p = "b" -> [NoDeps EXCEPT !.dependencies = <<"a">>]
          [] p = "c" -> [NoDeps EXCEPT !.devDependencies = <<"a">>]
          [] p = "d" -> [NoDeps EXCEPT !.dependencies = <<"b">>,
                                       !.peerDependencies = <<"c">>]]

\* The state after the constructor, for the diamond workspace.
DiamondInit ==
    /\ packages = DiamondPackages
    /\ manifest = DiamondManifest
    /\ depGraph = buildDepGraph(packages, manifest)
    /\ gpc = "built"
    /\ sets = <<>>
    /\ NoRun

\* run is called on d alone, or without `only`.
DiamondNext ==
    \/ \E c \in Commands, rootList \in {<<"d">>, DiamondPackages} : Run(c, rootList)
    \/ \E p \in Range(DiamondPackages), success \in BOOLEAN : TaskDone(p, success)
    \/ \E p \in Range(DiamondPackages), success \in BOOLEAN : ParallelTaskDone(p, success)
    \/ RunPackagesReturn
    \/ RunContinue
    \/ \E ok \in BOOLEAN : WorkspaceDone(ok)

DiamondSpec == DiamondInit /\ [][DiamondNext]_vars

----------------------------------------------------------------------------
(* Properties of buildDepGraph (GraphSpec).                                *)

\* buildDepGraph has just returned (depGraph never changes afterwards).
Built == gpc = "built"

\* The direct internal dependencies of package a, read off its manifest.
Direct(a) ==
    (Range(manifest[a].dependencies) \cup Range(manifest[a].devDependencies)
        \cup Range(manifest[a].peerDependencies)) \cap Range(packages)

RECURSIVE ReachIn(_, _)
\* S and everything at most k direct edges away from a member of S.
ReachIn(S, k) ==
    IF k = 0 THEN S ELSE ReachIn(S \cup UNION {Direct(x) : x \in S}, k - 1)

\* The packages reachable from a by one or more direct edges.
Reachable(a) == ReachIn(Direct(a), Cardinality(Names))

\* C6: the graph buildDepGraph returns is transitively closed: if B is in
\* depGraph[A] and C is in depGraph[B] then C is in depGraph[A], cycles included.
C6_Transitive ==
    Built =>
        \A a \in DOMAIN depGraph : \A b \in Range(depGraph[a]) :
            \A c \in Range(depGraph[b]) : c \in Range(depGraph[a])

\* A built graph with a package on a cycle that also has an indirect dependency.
C6_Witness ==
    /\ Built
    /\ \E a \in DOMAIN depGraph :
         /\ a \in Range(depGraph[a])
         /\ \E c \in Range(depGraph[a]) : c \notin Direct(a)

\* C7: the keys of depGraph are exactly the workspace's package names, and
\* depGraph[A] is exactly the set of packages reachable from A by one or more
\* direct internal edges (the three dependency categories together, restricted
\* to package names); no external name is in an entry or in a closure.
C7_ExactReachability ==
    Built =>
        /\ DOMAIN depGraph = Range(packages)
        /\ \A a \in DOMAIN depGraph : Range(depGraph[a]) = Reachable(a)
        /\ \A a \in DOMAIN depGraph : Range(depGraph[a]) \subseteq Range(packages)
        /\ \A rootList \in RootLists(packages) :
               Range(dependencyClosure(depGraph, rootList)) \subseteq Range(packages)

\* A built graph of a workspace where a package declares an external name,
\* declares in two categories, and has an entry larger than its direct
\* dependencies.
C7_Witness ==
    /\ Built
    /\ \E a \in DOMAIN depGraph :
         /\ Range(DeclaredNames(manifest[a])) \ Range(packages) # {}
         /\ manifest[a].dependencies = <<>>
         /\ manifest[a].devDependencies # <<>>
         /\ manifest[a].peerDependencies # <<>>
         /\ Range(depGraph[a]) # Direct(a)

\* The mapping from package name to dependency set.
AsSets(g) == [name \in DOMAIN g |-> Range(g[name])]

\* C8: building the graph from any permutation of the package list gives the
\* same mapping from name to dependency set, and building it again from the
\* same list gives the identical mapping.  Every permutation of a workspace is
\* compared with the graph built from its listing in NameOrder, which compares
\* every two permutations with each other.
C8_OrderIndependent ==
    Built =>
        /\ buildDepGraph(packages, manifest) = depGraph
        /\ packages = SeqOf(Range(packages)) =>
               \A q \in OrdersOf(Range(packages)) :
                   AsSets(buildDepGraph(q, manifest)) = AsSets(depGraph)

\* A built graph of three packages where a pass changes an entry that a later
\* key reads: the result of the first pass depends on the order of the keys.
C8_Witness ==
    /\ Built
    /\ packages = SeqOf(Names)
    /\ \E q \in OrdersOf(Range(packages)) :
           AsSets(Pass(InitialSets(q, manifest), q).g)
               # AsSets(Pass(InitialSets(packages, manifest), packages).g)

----------------------------------------------------------------------------
(* Properties of runPackages and run (Spec, LiveSpec).                     *)

\* runPackages has been entered in ordered mode.
OrderedRun == pc # "idle" /\ cmd.run /\ ~cmd.parallel

\* cmd.run has been invoked on p.
Started(p) == p \in DOMAIN taskResult /\ taskResult[p] # "none"

\* Some task has resolved to false.
AnyFailed == \E p \in DOMAIN taskResult : taskResult[p] = "false"

\* C1: in ordered mode, whenever cmd.run has been invoked on A, every B in
\* depGraph[A] has status finished and its cmd.run has completed: B finished
\* before A was started, whatever the order of the completions.
C1_DependenciesFirst ==
    OrderedRun =>
        \A a \in DOMAIN status :
            (status[a] # "queued" \/ Started(a)) =>
                \A b \in Range(depGraph[a]) :
                    /\ StatusOf(status, b) = "finished"
                    /\ Completed(taskResult, b)

\* A package with a dependency is running while an unrelated package, started
\* before it, is still running too.
C1_Witness ==
    /\ OrderedRun
    /\ \E a, c \in DOMAIN status :
         /\ a # c
         /\ status[a] = "running"
         /\ status[c] = "running"
         /\ depGraph[a] # <<>>
         /\ depGraph[c] = <<>>

\* C2: once a task has resolved to false, runPackages and run never return
\* true, in either mode; in ordered mode the promise is rejected and stays so,
\* so that runPackages can only return false.
C2_FailurePropagates ==
    (cmd.run /\ AnyFailed) =>
        /\ rpResult # "true"
        /\ runResult # "true"
        /\ ~cmd.parallel => promise = "rejected"
        /\ pc \in {"returned", "workspace", "done"} => rpResult = "false"
        /\ pc = "done" => runResult = "false"

\* An ordered run of several packages in which one task failed, every package
\* finished all the same, and run has returned false after runWorkspace.
C2_Witness ==
    /\ OrderedRun
    /\ AnyFailed
    /\ Len(pkgs) >= 2
    /\ AllFinished(status)
    /\ \E p \in DOMAIN taskResult : taskResult[p] = "true"
    /\ pc = "done"
    /\ runResult = "false"

\* C3 (as claimed): in ordered mode cmd.run is never invoked on a package one
\* of whose depGraph entries resolved to false.
C3_NoStartAfterFailedDependency ==
    OrderedRun =>
        \A a \in DOMAIN status : \A b \in Range(depGraph[a]) :
            (b \in DOMAIN taskResult /\ taskResult[b] = "false") => ~Started(a)

\* Some package goes from queued to running in this step.
StartsSomething ==
    \E p \in DOMAIN status' :
        /\ status'[p] = "running"
        /\ (p \in DOMAIN status => status[p] = "queued")

\* C4 (as claimed): in ordered mode, a step that starts a package never
\* happens once a task has resolved to false.
C4_NoStartAfterFailure ==
    [][(StartsSomething /\ cmd'.run /\ ~cmd'.parallel) => ~AnyFailed']_vars

\* C5 (as claimed): cmd.runWorkspace is never invoked when runPackages returned
\* false; when it returned true, cmd.runWorkspace is invoked once, and only
\* after every task of the closure has completed.
C5_WorkspaceOnlyOnSuccess ==
    /\ rpResult = "false" => wsCalls = 0
    /\ (rpResult = "true" /\ cmd.runWorkspace /\ pc \in {"workspace", "done"}) =>
           /\ wsCalls = 1
           /\ wsSnapshot = {}

\* C9: the closure runPackages executes is a superset of its root set.
C9_ClosureSuperset ==
    (pc # "idle" /\ cmd.run) => Range(rootSet) \subseteq Range(pkgs)

\* A run on a non-empty root list whose closure added packages to it.
C9_Witness ==
    /\ pc # "idle"
    /\ cmd.run
    /\ rootSet # <<>>
    /\ Len(pkgs) > Len(rootSet)

\* No package of the closure lies on a cycle of direct dependencies.
AcyclicClosure == \A p \in Range(pkgs) : p \notin Reachable(p)

\* C10: in ordered mode over a non-empty acyclic closure, if every task
\* completes and none fails, runPackages returns true; and it returns true
\* only when every package was started and has finished.
C10_SuccessfulRunCompletes ==
    /\ [](OrderedRun /\ rpResult = "true" =>
             \A p \in Range(pkgs) : Started(p) /\ status[p] = "finished")
    /\ (OrderedRun /\ pkgs # <<>> /\ AcyclicClosure) ~> (AnyFailed \/ rpResult = "true")

\* An ordered run of a chain of dependencies has returned true.
C10_Witness ==
    /\ OrderedRun
    /\ AcyclicClosure
    /\ \E p \in Range(pkgs) : Len(depGraph[p]) >= 2
    /\ rpResult = "true"

\* runPackages has been entered in parallel mode.
ParallelRun == pc # "idle" /\ cmd.run /\ cmd.parallel

\* C11: in parallel mode cmd.run is invoked on every package of the closure at
\* once, whatever depGraph says; runPackages returns only after every task has
\* completed, and returns true exactly when every task resolved to true.
C11_ParallelIsAndOfAll ==
    ParallelRun =>
        /\ \A p \in Range(pkgs) : Started(p)
        /\ rpResult # "none" =>
               /\ \A p \in Range(pkgs) : Completed(taskResult, p)
               /\ rpResult = "true" <=> \A p \in Range(pkgs) : taskResult[p] = "true"

\* A parallel run of a package and its dependency, the dependent completing
\* with true while the dependency is still pending, has returned false after
\* the dependency resolved to false: results (true, false) give false.
C11_Witness ==
    /\ ParallelRun
    /\ rpResult = "false"
    /\ \E a \in Range(pkgs) : \E b \in Range(depGraph[a]) :
         /\ a # b
         /\ taskResult[a] = "true"
         /\ taskResult[b] = "false"

\* p lies on a cycle of direct internal dependencies.
OnCycle(p) == p \in Reachable(p)

\* p lies on a cycle or depends, directly or not, on a package that does.
Stalled(p) == \E c \in Reachable(p) : OnCycle(c)

\* C12: in ordered mode a package on a dependency cycle (a self-dependency
\* included), or one that depends on such a package, stays queued and its task
\* is never started.
C12_CycleNeverEligible ==
    OrderedRun =>
        \A p \in Range(pkgs) :
            Stalled(p) => status[p] = "queued" /\ ~Started(p)

\* A package off the cycle waits on a cycle member while an unrelated package
\* has run and finished.
C12_Witness ==
    /\ OrderedRun
    /\ \E p, q \in Range(pkgs) :
         /\ Stalled(p)
         /\ ~OnCycle(p)
         /\ status[p] = "queued"
         /\ status[q] = "finished"

\* The closure being executed contains a dependency cycle.
CyclicClosure == \E p \in Range(pkgs) : OnCycle(p)

\* C13 (as claimed): an ordered run whose closure contains a cycle never
\* resolves: the promise stays pending and runPackages returns nothing,
\* whatever the other tasks return.
C13_CycleNeverResolves ==
    (OrderedRun /\ CyclicClosure) => promise = "pending" /\ rpResult = "none"

\* C13 (amended): an ordered run whose closure contains a cycle never returns
\* true; its promise stays pending as long as no started task has resolved to
\* false, and it is rejected, so that runPackages returns false, exactly when
\* one has.
C13_CycleNeverSucceeds ==
    (OrderedRun /\ CyclicClosure) =>
        /\ promise \in {"pending", "rejected"}
        /\ promise = "rejected" <=> AnyFailed
        /\ rpResult # "true"
        /\ rpResult = "false" => AnyFailed

\* The stall: a cycle in the closure, every package off it finished with true,
\* nothing running, the promise still pending.
C13_Witness ==
    /\ OrderedRun
    /\ CyclicClosure
    /\ promise = "pending"
    /\ \E q \in Range(pkgs) : taskResult[q] = "true"
    /\ \A q \in Range(pkgs) : status[q] # "running"

\* C14: on the diamond workspace the closure of {d} is {a, b, c, d}; in an
\* ordered run a is the only package started at first, b and c are started
\* only once a has finished, and both of them then, and d is started only once
\* b and c have both finished.
C14_Diamond ==
    (pc # "idle" /\ cmd.run /\ rootSet = <<"d">>) =>
        /\ Range(pkgs) = {"a", "b", "c", "d"}
        /\ ~cmd.parallel =>
               /\ Started("a")
               /\ status["a"] = "running" =>
                      ~Started("b") /\ ~Started("c") /\ ~Started("d")
               /\ (Started("b") \/ Started("c")) => status["a"] = "finished"
               /\ status["a"] = "finished" => Started("b") /\ Started("c")
               /\ Started("d") => status["b"] = "finished" /\ status["c"] = "finished"

\* b and c are running at the same time in an ordered run on {d}.
C14_Witness ==
    /\ OrderedRun
    /\ rootSet = <<"d">>
    /\ status["b"] = "running"
    /\ status["c"] = "running"

\* C15: in ordered mode, while no task has failed, no package is ever left
\* queued with every depGraph entry finished: after the first scan and after
\* every completion, each such package has been started (so every package
\* without dependencies is started at the very beginning).
C15_NoEligibleLeftWaiting ==
    (OrderedRun /\ ~AnyFailed) =>
        \A p \in Range(pkgs) :
            /\ status[p] = "queued" =>
                   \E b \in Range(depGraph[p]) : StatusOf(status, b) # "finished"
            /\ depGraph[p] = <<>> => Started(p)

\* A dependent was started on the success of its dependency while a package
\* started in the first scan is still running.
C15_Witness ==
    /\ OrderedRun
    /\ ~AnyFailed
    /\ \E p, q \in Range(pkgs) :
         /\ p # q
         /\ status[p] = "running"
         /\ \E b \in Range(depGraph[p]) : taskResult[b] = "true"
         /\ q \notin Range(depGraph[p])
         /\ status[q] = "running"

\* C16: in ordered mode the promise is rejected in the very step in which a
\* task resolves to false, runPackages then returns false even if the tasks
\* still running never complete, and once false its result stays false.
C16_FailureReportedAtOnce ==
    /\ [](OrderedRun /\ AnyFailed => promise = "rejected")
    /\ (OrderedRun /\ AnyFailed) ~> rpResult = "false"
    /\ [][rpResult = "false" => rpResult' = "false"]_vars

\* runPackages has returned false while another started task is still running.
C16_Witness ==
    /\ OrderedRun
    /\ rpResult = "false"
    /\ \E p \in Range(pkgs) : status[p] = "running"

\* The number of names in the Sets of buildDepGraph's local depGraph.
RECURSIVE TotalSize(_, _)
TotalSize(g, keys) ==
    IF keys = <<>> THEN 0 ELSE Len(g[Head(keys)]) + TotalSize(g, Tail(keys))

SetsSize(g) == IF g = <<>> THEN 0 ELSE TotalSize(g, SeqOf(DOMAIN g))

\* C17: the loop of buildDepGraph ends for every workspace, cycles and
\* self-dependencies included: a pass that reports a change (and so continues
\* the loop) has added a name to some Set, and the Sets hold at most every
\* name for every package, so the loop makes a bounded number of passes.  In
\* the graph returned a package is in its own entry exactly when it lies on a
\* cycle of direct internal dependencies, every member of a cycle having every
\* member of that cycle in its entry.
C17_FixpointTerminates ==
    /\ gpc = "loop" =>
           LET r == Pass(sets, RootSet(packages))
           IN r.changed => SetsSize(r.g) > SetsSize(sets)
    /\ SetsSize(sets) <= Len(packages) * Len(packages)
    /\ Built =>
           \A p \in DOMAIN depGraph :
               /\ p \in Range(depGraph[p]) <=> OnCycle(p)
               /\ \A q \in DOMAIN depGraph :
                      (q \in Reachable(p) /\ p \in Reachable(q)) =>
                          q \in Range(depGraph[p])

\* buildDepGraph has returned the graph of a workspace whose three packages
\* form one cycle.
C17_Witness ==
    /\ Built
    /\ Len(packages) = 3
    /\ \A p \in DOMAIN depGraph :
         /\ Cardinality(Direct(p)) = 1
         /\ p \notin Direct(p)
         /\ Range(depGraph[p]) = Range(packages)

\* C18: the closure of a root list is the roots together with the depGraph
\* entries of the roots, and nothing else; it is closed under depGraph, so in
\* ordered mode the status table has an entry for every name canExecute looks
\* up, and every prerequisite of a root is among the packages run.
C18_ClosureExact ==
    (pc # "idle" /\ cmd.run) =>
        /\ Range(pkgs) =
               Range(rootSet) \cup UNION {Range(depGraph[r]) : r \in Range(rootSet)}
        /\ \A p \in Range(pkgs) : Range(depGraph[p]) \subseteq Range(pkgs)
        /\ ~cmd.parallel =>
               /\ DOMAIN status = Range(pkgs)
               /\ \A p \in Range(pkgs) : \A i \in 1..Len(depGraph[p]) :
                      StatusOf(status, depGraph[p][i]) # "undefined"

\* An ordered run on two roots, the first without dependencies, the second
\* with a dependency that is no root.
C18_Witness ==
    /\ OrderedRun
    /\ Len(rootSet) = 2
    /\ depGraph[rootSet[1]] = <<>>
    /\ \E q \in Range(depGraph[rootSet[2]]) : q \notin Range(rootSet)

\* The statuses of the table.
Statuses == {"queued", "running", "finished"}

\* C19: in an ordered run every package of the closure has one of the three
\* statuses; a step leaves a status alone or moves it from queued to running or
\* from running to finished; and cmd.run is invoked on a package only when it
\* leaves queued, so at most once in a run.
C19_StatusForward ==
    [][/\ \A p \in DOMAIN status' : status'[p] \in Statuses
       /\ (pc = "idle" /\ cmd'.run /\ ~cmd'.parallel) =>
              /\ DOMAIN status' = Range(pkgs')
              /\ \A p \in DOMAIN status' :
                     /\ status'[p] \in {"queued", "running"}
                     /\ taskResult'[p] = "pending" <=> status'[p] = "running"
       /\ OrderedRun =>
              /\ DOMAIN status' = DOMAIN status
              /\ \A p \in DOMAIN status :
                     /\ \/ status'[p] = status[p]
                        \/ status[p] = "queued" /\ status'[p] = "running"
                        \/ status[p] = "running" /\ status'[p] = "finished"
                     /\ (taskResult'[p] = "pending" /\ taskResult[p] # "pending") =>
                            /\ taskResult[p] = "none"
                            /\ status[p] = "queued"
                            /\ status'[p] = "running"
                     /\ taskResult[p] # "none" => taskResult'[p] # "none"]_vars

\* An ordered run in which one package has finished, a second is running and a
\* third is still queued, after a completion has triggered a rescan.
C19_Witness ==
    /\ OrderedRun
    /\ \E p, q, r \in DOMAIN status :
           /\ status[p] = "finished"
           /\ status[q] = "running"
           /\ status[r] = "queued"
           /\ p \in Range(depGraph[q])

\* C20: a run in ordered mode whose closure is empty leads to runPackages
\* returning true.
C20_EmptyRunResolves ==
    (OrderedRun /\ pc = "packages" /\ pkgs = <<>>) ~> (rpResult = "true")

====
